---- MODULE Spec2Model ----
(***************************************************************************)
(* Scaly: composition of an ordered list of data-access layers into one    *)
(* API object (src/index.js).  Every operation of every layer becomes an   *)
(* async function DB[op] that walks the layers in order, drives each       *)
(* layer's async generator to its first yield/return, and back-fills the   *)
(* generators that asked for the value once a deeper layer returns one.    *)
(*                                                                         *)
(* One action of the model is one synchronous segment of the JavaScript    *)
(* code: the statements executed between two awaits run without any other  *)
(* code of the program in between.                                         *)
(***************************************************************************)
EXTENDS Integers, Sequences, FiniteSets, TLC

\* ------------------------------------------------------------------ bounds
NumLayers == 3
NumCalls == 2
\* Layers of the object the interleaved calls are made on, and of the
\* object whose layers the application changes.
MaxConcurrentLayers == 2
\* Layer objects that are not plain (see Plain) when the program starts.
MaxOddLayers == 1
\* Changes the application makes to the layers after composition.
MaxChanges == 2

LayerIds == 1..NumLayers
Calls == 1..NumCalls

\* Names of the own keys of the layers, in the key order used by the layers:
\* the toString method of a layer that has one of its own (as the layers of
\* src/test.js have, first) and the names of the handlers.
OpNames == <<"toString", "get", "set">>
Ops == {OpNames[i] : i \in 1..Len(OpNames)}
HandlerOps == Ops \ {"toString"}

\* Call arguments handed to the handler factories.
Args == {"a1", "a2"}

\* JavaScript values a handler returns, yields or receives.
Undefined == "undefined"
DefinedValues == {"null", "qix"}
Values == {Undefined} \cup DefinedValues
\* The values JavaScript coerces to false, and all the values of a handler
\* whose results include them.
Falsy == {Undefined, "null", "false", "0", ""}
JsValues == Values \cup Falsy

VARIABLES
    heap,       \* heap[l]: layer object l as the engine reads it: its own
                \* enumerable keys in key order (Object.keys), the value of
                \* layer[op] for each name, and what layer.toString is
    scalyCall,  \* how scaly was invoked: the form of the call, the number of
                \* layer objects passed and their keys at that moment
    composed,   \* "no" before scaly(...) ran, then "ok" or "TypeError"
    layers,     \* the array captured by the closures of DB (sequence of layer objects)
    DB,         \* operation names of the composed object, in insertion order
    calls,      \* per call of DB[op]: the locals of the async function
    gens,       \* per call and loop position: the generator made by layer[op](...args)
    changes     \* number of changes the application made after composition

vars == <<heap, scalyCall, composed, layers, DB, calls, gens, changes>>

\* ----------------------------------------------------------------- helpers
Range(s) == {s[i] : i \in 1..Len(s)}

\* Sub-sequences of OpNames: the key lists a layer object may have.
RECURSIVE KeyLists(_)
KeyLists(n) ==
    IF n = 0 THEN {<<>>}
    ELSE LET rest == KeyLists(n - 1)
         IN  rest \cup {Append(k, OpNames[n]) : k \in rest}

\* What layer[op] evaluates to: a falsy value (undefined when the layer has
\* no such property, or null, 0, "", false), an async generator function,
\* a truthy value that cannot be called (a number, a Map), or a function
\* that returns no generator (toString).
PropValues == {"falsy", "generator", "data", "function"}

\* What layer.toString is: Object.prototype.toString, a method of the layer
\* that returns its name, not a function (Object.create(null)), or a
\* function that throws.
ToStrings == {"object", "named", "missing", "throws"}

\* What the prototype chain of a layer holds under a handler name: nothing,
\* or an async generator method (of the class of the layer).
ProtoValues == {"falsy", "generator"}

\* The handler properties of o are those of an object literal: its own keys
\* hold async generator functions, it has no other handler property and
\* its prototype has none.
PlainHandlers(o) ==
    \A op \in HandlerOps :
        /\ o.val[op] = IF op \in Range(o.keys) THEN "generator" ELSE "falsy"
        /\ o.proto[op] = "falsy"

\* The layer objects: layer[op] is the own property when op is an own key
\* and what the prototype holds otherwise (a method of the class of the
\* layer, or nothing); toString is a function unless it is missing, and an
\* own key only when the layer defines it.  The layers whose toString is
\* missing or throws, which reject every call that reaches them, are taken
\* with plain handler properties.  The layers the program starts with have
\* no method of the prototype under an own key: an override comes about by
\* a change of the prototype or an assignment (see Changed).
LayerObjects ==
    {o \in [keys : KeyLists(Len(OpNames)), val : [Ops -> PropValues],
            proto : [HandlerOps -> ProtoValues], str : ToStrings] :
        /\ \A op \in HandlerOps :
                /\ o.val[op] # "function"
                /\ op \notin Range(o.keys) => o.val[op] = o.proto[op]
                /\ op \in Range(o.keys) => o.proto[op] = "falsy"
        /\ o.val["toString"] = IF o.str = "missing" THEN "falsy" ELSE "function"
        /\ "toString" \in Range(o.keys) => o.str \in {"named", "throws"}
        /\ o.str \in {"missing", "throws"} => PlainHandlers(o)}

\* An object literal whose own keys are its async generator methods and
\* nothing else.
Plain(o) == o.str = "object" /\ PlainHandlers(o)

PlainObjects == {o \in LayerObjects : Plain(o)}
OddObjects == LayerObjects \ PlainObjects

\* The layers of src/test.js: an object literal with a toString method of
\* its own, which returns its name, and its async generator methods.
NamedObjects ==
    {o \in LayerObjects : /\ o.str = "named" /\ PlainHandlers(o)
                          /\ "toString" \in Range(o.keys)}

\* The string layer.toString() returns when it returns one.
LayerToString(l) ==
    IF heap[l].str = "named" THEN <<"layer", l>> ELSE <<"[object Object]", 0>>

\* !layer[op] is false: layer[op] is truthy.
HasOp(l, op) == heap[l].val[op] # "falsy"

\* ----------------------------------------------------------- step results
\* What gen.next(...) settles to: {value, done} or a rejection.
NoResult == [kind |-> "none", value |-> Undefined]
\* {value: v, done: true}
Returned(v) == [kind |-> "return", value |-> v]
\* {value: v, done: false}
Yielded(v) == [kind |-> "yield", value |-> v]
\* the promise of gen.next(...) is rejected
Thrown == [kind |-> "throw", value |-> Undefined]

StepResults == {Returned(v) : v \in Values} \cup {Yielded(v) : v \in Values} \cup {Thrown}

\* Mutant: the value is tested for truth, `done && result`, `!result`.
ClassifyTruthy(done, value) ==
    CASE done /\ value \notin Falsy -> "success"
      [] done -> "optout"
      [] value \in Falsy -> "pending"
      [] OTHER -> "failure"

\* The branch DB[op] takes on {value, done} of a first step:
\* done && result !== undefined, done, result === undefined, else.
Classify(done, value) ==
    CASE done /\ value # Undefined -> "success"
      [] done -> "optout"
      [] value = Undefined -> "pending"
      [] OTHER -> "failure"

\* Errors a call can be rejected with.
NoError == <<"none", "", <<>>>>
\* The exception raised inside the generator of layer l during call c.
HandlerException(c, l) == <<"exception", "", <<c, l>>>>
\* Mutant: the error does not carry the trace.
UnhandledErrorNoTrace(op, attempted) == <<"unhandled", op, <<>>>>

\* new Error(`operation was not handled by any configured layers: ${op}
\*   (attempted layers: ${attemptedLayers.join(', ')})`)
UnhandledError(op, attempted) == <<"unhandled", op, attempted>>

\* The TypeError of calling a value that is not a function, at line 23
\* (layer.toString) or at line 26 (layer[op]).
NotAFunction(what) == <<"TypeError", what, <<>>>>
\* What the toString of layer l threw.
ToStringException(l) == <<"thrown", "toString", <<l>>>>

\* A generator: the layer object that made it, its state, the arguments it
\* was made with, the result of its first step, the values handed to it and
\* the result of its second step.
NoGen == [layer |-> 0, st |-> "none", args |-> "", r1 |-> NoResult, got |-> <<>>,
          r2 |-> NoResult]

\* Locals of one invocation of DB[op]; cur is the position of the for loop,
\* all the reason the promise of Promise.all(...) is rejected with (NoError
\* as long as none of its steps is rejected), ret the array the call
\* resolved to, err the error it was rejected with.
IdleCall == [pc |-> "idle", op |-> "", args |-> "", cur |-> 0,
             attemptedLayers |-> <<>>, pendingGenerators |-> <<>>,
             result |-> Undefined, all |-> NoError, ret |-> <<>>,
             err |-> NoError]

\* scaly has not been called yet.
NotInvoked == [form |-> "none", n |-> 0, keys |-> <<>>, items |-> <<>>]

\* ------------------------------------------------------------------- Init
\* The application has made its layer objects, the first n of them as it
\* pleased: plain ones with at most odd of them not plain, or all of them
\* with a toString of their own as in src/test.js; the others are empty.
\* scaly has not been called.
InitWith(n, odd) ==
    /\ \E S \in SUBSET (1..n) :
        /\ Cardinality(S) <= odd
        /\ \E p \in [1..n -> PlainObjects]
                      \cup (IF S = {} THEN [1..n -> NamedObjects] ELSE {}),
              o \in [S -> OddObjects] :
            heap = [l \in LayerIds |->
                        IF l \in S THEN o[l]
                        ELSE IF l <= n THEN p[l]
                        ELSE [keys |-> <<>>,
                              val |-> [op \in Ops |-> IF op = "toString"
                                                      THEN "function" ELSE "falsy"],
                              proto |-> [op \in HandlerOps |-> "falsy"],
                              str |-> "object"]]
    /\ scalyCall = NotInvoked
    /\ composed = "no"
    /\ layers = <<>>
    /\ DB = <<>>
    /\ calls = [c \in Calls |-> IdleCall]
    /\ gens = [c \in Calls |-> [l \in LayerIds |-> NoGen]]
    /\ changes = 0

Init == InitWith(NumLayers, MaxOddLayers)

\* ---------------------------------------------------------------- compose
\* The ways scaly is called: scaly([l1, ..., ln]) and scaly(l1, ..., ln).
ArgForms == {"array", "spread"}

\* Mutant: a value that is not an array is wrapped into one ([].concat(layers)).
FirstArgumentWrapped(form, n) ==
    [isArray |-> TRUE,
     items |-> IF form = "array" THEN [i \in 1..n |-> i]
               ELSE IF n >= 1 THEN <<1>> ELSE <<>>]

\* The first positional argument, the only one the function reads, when the
\* layer objects 1..n are passed: the array of them, or the first of them
\* (undefined when there is none).
FirstArgument(form, n) ==
    IF form = "array"
    THEN [isArray |-> TRUE, items |-> [i \in 1..n |-> i]]
    ELSE [isArray |-> FALSE, items |-> <<>>]

\* layers.reduce((acc, layer) => acc.concat(Object.keys(layer)), [])
RECURSIVE ConcatKeys(_, _)
ConcatKeys(ls, n) ==
    IF n = 0 THEN <<>> ELSE ConcatKeys(ls, n - 1) \o heap[ls[n]].keys

\* new Set(keys): the keys in first-insertion order, without duplicates.
RECURSIVE Dedup(_, _)
Dedup(s, n) ==
    IF n = 0 THEN <<>>
    ELSE LET d == Dedup(s, n - 1)
         IN  IF s[n] \in Range(d) THEN d ELSE Append(d, s[n])

AllOperations(ls) == Dedup(ConcatKeys(ls, Len(ls)), Len(ConcatKeys(ls, Len(ls))))

\* Mutant: composition probes the layers by creating and starting the
\* generators of their operations.
ComposeProbing(form, n) ==
    /\ composed = "no"
    /\ scalyCall' = [form |-> form, n |-> n, keys |-> heap,
                     items |-> FirstArgument(form, n).items]
    /\ LET arg == FirstArgument(form, n)
       IN  IF ~arg.isArray
           THEN /\ composed' = "TypeError"
                /\ UNCHANGED <<layers, DB, gens>>
           ELSE /\ composed' = "ok"
                /\ layers' = arg.items
                /\ DB' = AllOperations(arg.items)
                /\ gens' = [gens EXCEPT ![1] = [i \in LayerIds |->
                        IF i <= n /\ heap[i].keys # <<>>
                        THEN [NoGen EXCEPT !.st = "running"] ELSE NoGen]]
    /\ UNCHANGED <<heap, calls, changes>>

Compose(form, n) ==
    /\ composed = "no"
    /\ scalyCall' = [form |-> form, n |-> n, keys |-> heap,
                     items |-> FirstArgument(form, n).items]
    /\ LET arg == FirstArgument(form, n)
       IN  IF ~arg.isArray
           THEN /\ composed' = "TypeError"
                /\ UNCHANGED <<layers, DB>>
           ELSE /\ composed' = "ok"
                /\ layers' = arg.items
                /\ DB' = AllOperations(arg.items)
    /\ UNCHANGED <<heap, calls, gens, changes>>

\* ------------------------------------------------------------------- call
\* Mutant: the loop lacks `if (!layer[op]) continue`.
NextLayerNoSkip(op, from) == IF from > Len(layers) THEN 0 ELSE from

\* Position of the first layer at or after `from` that has the operation
\* (the for loop with its `continue`), 0 when the loop runs out of layers.
RECURSIVE NextLayer(_, _)
NextLayer(op, from) ==
    IF from > Len(layers) THEN 0
    ELSE IF HasOp(layers[from], op) THEN from
    ELSE NextLayer(op, from + 1)

\* Mutant: one pending list shared by all the calls of the object.
RECURSIVE ConcatPending(_)
ConcatPending(n) ==
    IF n = 0 THEN <<>> ELSE ConcatPending(n - 1) \o calls[n].pendingGenerators
PendingShared(c) == ConcatPending(NumCalls)

\* The generators the call resumes once a value is known.
PendingOf(c) == calls[c].pendingGenerators

\* What a generator resumed by gen.next(v) has come to when gen.next
\* returns, the body having run inside that call up to its next await, its
\* end or its throw: it is still running (at an await of its own, or at the
\* await that precedes `yield x` and `return x` in an async generator), it
\* reached its end without a value, or it threw.
InJobResults == {NoResult, Returned(Undefined), Thrown}

\* The state of a generator resumed from a yield whose step has come to r.
Settled(r) ==
    CASE r.kind = "none" -> "resumed"
      [] r.kind = "return" -> "done"
      [] r.kind = "yield" -> "suspended"
      [] OTHER -> "thrown"

\* Mutant: gen.next() without the value.
GenNextNoValue(g, v, r) ==
    [g EXCEPT !.st = IF @ = "suspended" THEN Settled(r) ELSE @,
              !.got = Append(@, Undefined),
              !.r2 = IF g.st = "suspended" THEN r ELSE @]

\* gen.next(v) on a generator: one suspended at a yield is handed v and runs
\* on, inside the call of next, until it has come to r.
GenNext(g, v, r) ==
    [g EXCEPT !.st = IF @ = "suspended" THEN Settled(r) ELSE @,
              !.got = Append(@, v),
              !.r2 = IF g.st = "suspended" THEN r ELSE @]

\* The reason Promise.all(steps) is rejected with, the steps being those of
\* the generators p, of which out[g] is what g came to inside gen.next: the
\* reactions of the steps run in the order of the array, so the first
\* rejected step of the array rejects the promise.
FirstRejected(p, out) ==
    LET ks == {k \in 1..Len(p) :
                  gens[p[k][1]][p[k][2]].st = "suspended" /\ out[p[k]] = Thrown}
    IN  IF ks = {} THEN NoError
        ELSE LET k == CHOOSE k \in ks : \A j \in ks : k <= j
             IN  HandlerException(p[k][1], p[k][2])

\* Mutant: attemptedLayers.unshift instead of push.
PushedFirst(trace, name) == <<name>> \o trace

\* attemptedLayers.push(name)
Pushed(trace, name) == Append(trace, name)

\* Mutant: before the final throw the pending generators are closed with
\* gen.return().
ExhaustedClosesPending(c, cr, g) ==
    /\ calls' = [calls EXCEPT ![c] =
            [cr EXCEPT !.pc = "threw", !.cur = 0,
                       !.err = UnhandledError(cr.op, cr.attemptedLayers)]]
    /\ gens' = [gens EXCEPT ![c] = [ii \in LayerIds |->
            IF <<c, ii>> \in Range(cr.pendingGenerators)
            THEN [g[ii] EXCEPT !.st = "done", !.r2 = Returned(Undefined)]
            ELSE g[ii]]]

\* The loop has run out of layers: the throw after it.
Exhausted(c, cr, g) ==
    /\ calls' = [calls EXCEPT ![c] =
            [cr EXCEPT !.pc = "threw", !.cur = 0,
                       !.err = UnhandledError(cr.op, cr.attemptedLayers)]]
    /\ gens' = [gens EXCEPT ![c] = g]

\* Mutant: the generator of the layer after this one is started too, before
\* this one has reached its first yield or return.
DispatchPrefetch(c, cr, g, i) ==
    LET l == layers[i]
        at == [cr EXCEPT !.cur = i]
        j == NextLayer(cr.op, i + 1)
    IN  CASE heap[l].str = "missing" ->
                /\ calls' = [calls EXCEPT ![c] =
                        [at EXCEPT !.pc = "threw",
                                   !.err = NotAFunction("layer.toString")]]
                /\ gens' = [gens EXCEPT ![c] = g]
          [] heap[l].str = "throws" ->
                /\ calls' = [calls EXCEPT ![c] =
                        [at EXCEPT !.pc = "threw", !.err = ToStringException(l)]]
                /\ gens' = [gens EXCEPT ![c] = g]
          [] heap[l].str \in {"object", "named"} /\ heap[l].val[cr.op] = "data" ->
                /\ calls' = [calls EXCEPT ![c] =
                        [at EXCEPT !.pc = "threw",
                                   !.attemptedLayers = Pushed(@, LayerToString(l)),
                                   !.err = NotAFunction("layer[op]")]]
                /\ gens' = [gens EXCEPT ![c] = g]
          [] heap[l].str \in {"object", "named"} /\ heap[l].val[cr.op] = "function" ->
                /\ calls' = [calls EXCEPT ![c] =
                        [at EXCEPT !.pc = "threw",
                                   !.attemptedLayers = Pushed(@, LayerToString(l)),
                                   !.err = NotAFunction("gen.next")]]
                /\ gens' = [gens EXCEPT ![c] = g]
          [] OTHER ->
                /\ calls' = [calls EXCEPT ![c] =
                        [at EXCEPT !.pc = "awaitNext",
                                   !.attemptedLayers = Pushed(@, LayerToString(l))]]
                /\ gens' = [gens EXCEPT ![c] =
                        [ii \in LayerIds |->
                            IF ii = i \/ ii = j
                            THEN [NoGen EXCEPT !.layer = layers[ii], !.st = "running",
                                               !.args = cr.args]
                            ELSE g[ii]]]

\* The body of the loop for the layer at position i, whose layer[op] is
\* truthy, up to `await gen.next()`: layer.toString() is called and its
\* result pushed, then layer[op](...args) is called and then the next of
\* what it returned.  A call of something that is not a function (a
\* missing toString, a layer[op] that holds data, the next of a string
\* that layer.toString(...args) returned), or a toString that throws,
\* rejects the call.
Dispatch(c, cr, g, i) ==
    LET l == layers[i]
        at == [cr EXCEPT !.cur = i]
    IN  CASE heap[l].str = "missing" ->
                /\ calls' = [calls EXCEPT ![c] =
                        [at EXCEPT !.pc = "threw",
                                   !.err = NotAFunction("layer.toString")]]
                /\ gens' = [gens EXCEPT ![c] = g]
          [] heap[l].str = "throws" ->
                /\ calls' = [calls EXCEPT ![c] =
                        [at EXCEPT !.pc = "threw", !.err = ToStringException(l)]]
                /\ gens' = [gens EXCEPT ![c] = g]
          [] heap[l].str \in {"object", "named"} /\ heap[l].val[cr.op] = "data" ->
                /\ calls' = [calls EXCEPT ![c] =
                        [at EXCEPT !.pc = "threw",
                                   !.attemptedLayers = Pushed(@, LayerToString(l)),
                                   !.err = NotAFunction("layer[op]")]]
                /\ gens' = [gens EXCEPT ![c] = g]
          [] heap[l].str \in {"object", "named"} /\ heap[l].val[cr.op] = "function" ->
                /\ calls' = [calls EXCEPT ![c] =
                        [at EXCEPT !.pc = "threw",
                                   !.attemptedLayers = Pushed(@, LayerToString(l)),
                                   !.err = NotAFunction("gen.next")]]
                /\ gens' = [gens EXCEPT ![c] = g]
          [] OTHER ->
                /\ calls' = [calls EXCEPT ![c] =
                        [at EXCEPT !.pc = "awaitNext",
                                   !.attemptedLayers = Pushed(@, LayerToString(l))]]
                /\ gens' = [gens EXCEPT ![c] =
                        [g EXCEPT ![i] = [NoGen EXCEPT !.layer = l, !.st = "running",
                                                       !.args = cr.args]]]

\* The loop from position `from` up to the next await (or a throw): cr and
\* g are the call's locals and generators as changed so far.
Walk(c, cr, g, from) ==
    LET i == NextLayer(cr.op, from)
    IN  IF i = 0 THEN Exhausted(c, cr, g) ELSE Dispatch(c, cr, g, i)

\* DB[op](...args) is invoked.
Call(c, op, a) ==
    /\ composed = "ok"
    /\ calls[c].pc = "idle"
    /\ op \in Range(DB)
    /\ Walk(c, [calls[c] EXCEPT !.op = op, !.args = a], gens[c], 1)
    /\ UNCHANGED <<heap, scalyCall, composed, layers, DB, changes>>

\* --------------------------------------------------- first step of a layer
\* `await gen.next()` of the layer at calls[c].cur settles to r and the
\* function runs on to its next await, its return or its throw.
Awaiting(c) ==
    /\ calls[c].pc = "awaitNext"
    /\ gens[c][calls[c].cur].st = "running"

\* Mutant: the exception is caught and returned as an error result.
FirstStepThrowsCaught(c) ==
    /\ Awaiting(c)
    /\ LET i == calls[c].cur
       IN  /\ gens' = [gens EXCEPT ![c][i].st = "thrown", ![c][i].r1 = Thrown]
           /\ calls' = [calls EXCEPT ![c].pc = "returned",
                                     ![c].ret = <<FALSE, "exception">>]
    /\ UNCHANGED <<heap, scalyCall, composed, layers, DB, changes>>

\* The generator threw: the await rethrows and the call is rejected.
FirstStepThrows(c) ==
    /\ Awaiting(c)
    /\ LET i == calls[c].cur
       IN  /\ gens' = [gens EXCEPT ![c][i].st = "thrown", ![c][i].r1 = Thrown]
           /\ calls' = [calls EXCEPT ![c].pc = "threw",
                                     ![c].err = HandlerException(c, i)]
    /\ UNCHANGED <<heap, scalyCall, composed, layers, DB, changes>>

\* Mutant: the `return [true, result]` is missing, the loop goes on.
FirstStepReturnsValueNoStop(c, v) ==
    /\ Awaiting(c)
    /\ v # Undefined
    /\ LET i == calls[c].cur
       IN  Walk(c, [calls[c] EXCEPT !.result = v],
                [ii \in LayerIds |->
                    IF ii = i
                    THEN [gens[c][i] EXCEPT !.st = "done", !.r1 = Returned(v)]
                    ELSE IF <<c, ii>> \in Range(PendingOf(c))
                    THEN GenNext(gens[c][ii], v, NoResult)
                    ELSE gens[c][ii]],
                i + 1)
    /\ UNCHANGED <<heap, scalyCall, composed, layers, DB, changes>>

\* Mutant: only the first pending generator is handed the result when the
\* layer returns; the others wait for it to settle.
FirstStepReturnsValueOneByOne(c, v) ==
    /\ Awaiting(c)
    /\ Classify(TRUE, v) = "success"
    /\ LET i == calls[c].cur
           p == IF PendingOf(c) = <<>> THEN <<>> ELSE <<PendingOf(c)[1]>>
       IN  \E out \in [Range(p) -> InJobResults] :
           /\ gens' = [cc \in Calls |-> [ii \in LayerIds |->
                    IF cc = c /\ ii = i
                    THEN [gens[c][i] EXCEPT !.st = "done", !.r1 = Returned(v)]
                    ELSE IF <<cc, ii>> \in Range(p)
                    THEN GenNext(gens[cc][ii], v, out[<<cc, ii>>])
                    ELSE gens[cc][ii]]]
           /\ calls' = [calls EXCEPT ![c].pc = "awaitAll", ![c].result = v,
                                     ![c].all = FirstRejected(p, out)]
    /\ UNCHANGED <<heap, scalyCall, composed, layers, DB, changes>>

\* done && result !== undefined: every pending generator is handed the
\* result (pendingGenerators.map(gen => gen.next(result))) and runs on inside
\* that call of next until it has come to out[g]; then the call awaits
\* Promise.all of these steps, which is rejected already when one of the
\* generators threw.
FirstStepReturnsValue(c, v) ==
    /\ Awaiting(c)
    /\ Classify(TRUE, v) = "success"
    /\ LET i == calls[c].cur
           p == PendingOf(c)
       IN  \E out \in [Range(p) -> InJobResults] :
           /\ gens' = [cc \in Calls |-> [ii \in LayerIds |->
                    IF cc = c /\ ii = i
                    THEN [gens[c][i] EXCEPT !.st = "done", !.r1 = Returned(v)]
                    ELSE IF <<cc, ii>> \in Range(p)
                    THEN GenNext(gens[cc][ii], v, out[<<cc, ii>>])
                    ELSE gens[cc][ii]]]
           /\ calls' = [calls EXCEPT ![c].pc = "awaitAll", ![c].result = v,
                                     ![c].all = FirstRejected(p, out)]
    /\ UNCHANGED <<heap, scalyCall, composed, layers, DB, changes>>

\* Mutant: the generator that returned undefined is pushed as pending.
FirstStepOptsOutPending(c, v) ==
    /\ Awaiting(c)
    /\ v = Undefined
    /\ LET i == calls[c].cur
       IN  Walk(c, [calls[c] EXCEPT !.pendingGenerators = Append(@, <<c, i>>)],
                [gens[c] EXCEPT ![i].st = "done", ![i].r1 = Returned(v)],
                i + 1)
    /\ UNCHANGED <<heap, scalyCall, composed, layers, DB, changes>>

\* done && result === undefined: the loop moves on, the generator is dropped.
FirstStepOptsOut(c, v) ==
    /\ Awaiting(c)
    /\ Classify(TRUE, v) = "optout"
    /\ LET i == calls[c].cur
       IN  Walk(c, calls[c],
                [gens[c] EXCEPT ![i].st = "done", ![i].r1 = Returned(v)],
                i + 1)
    /\ UNCHANGED <<heap, scalyCall, composed, layers, DB, changes>>

\* !done && result === undefined: pendingGenerators.push(gen), the loop moves on.
FirstStepRequests(c, v) ==
    /\ Awaiting(c)
    /\ Classify(FALSE, v) = "pending"
    /\ LET i == calls[c].cur
       IN  Walk(c, [calls[c] EXCEPT !.pendingGenerators = Append(@, <<c, i>>)],
                [gens[c] EXCEPT ![i].st = "suspended", ![i].r1 = Yielded(v)],
                i + 1)
    /\ UNCHANGED <<heap, scalyCall, composed, layers, DB, changes>>

\* Mutant: the error payload is handed to the pending generators too.
FirstStepYieldsErrorResumes(c, e) ==
    /\ Awaiting(c)
    /\ e # Undefined
    /\ LET i == calls[c].cur
       IN  /\ gens' = [gens EXCEPT ![c] = [ii \in LayerIds |->
                    IF ii = i
                    THEN [gens[c][i] EXCEPT !.st = "suspended", !.r1 = Yielded(e)]
                    ELSE IF <<c, ii>> \in Range(PendingOf(c))
                    THEN GenNext(gens[c][ii], e, NoResult)
                    ELSE gens[c][ii]]]
           /\ calls' = [calls EXCEPT ![c].pc = "returned", ![c].result = e,
                                     ![c].ret = <<FALSE, e>>]
    /\ UNCHANGED <<heap, scalyCall, composed, layers, DB, changes>>

\* !done && result !== undefined: return [false, result].
FirstStepYieldsError(c, e) ==
    /\ Awaiting(c)
    /\ Classify(FALSE, e) = "failure"
    /\ LET i == calls[c].cur
       IN  /\ gens' = [gens EXCEPT ![c][i].st = "suspended", ![c][i].r1 = Yielded(e)]
           /\ calls' = [calls EXCEPT ![c].pc = "returned", ![c].result = e,
                                     ![c].ret = <<FALSE, e>>]
    /\ UNCHANGED <<heap, scalyCall, composed, layers, DB, changes>>

\* ------------------------------------------------------------ propagation
\* The calls whose Promise.all holds the promise of generator <<c, i>>.
AwaitedBy(c, i) ==
    {cc \in Calls : calls[cc].pc = "awaitAll" /\ <<c, i>> \in Range(PendingOf(cc))}

\* Mutant: Promise.allSettled, a rejected step no longer rejects the promise
\* the call awaits.
ResumeStepSettled(c, i, r) ==
    /\ gens[c][i].st = "resumed"
    /\ r \in StepResults
    /\ gens' = [gens EXCEPT ![c][i].r2 = r, ![c][i].st = Settled(r)]
    /\ UNCHANGED <<heap, scalyCall, composed, layers, DB, calls, changes>>

\* Mutant: a resumed generator that yields again is stepped again, until it
\* is done.
ResumeStepAgain(c, i, r) ==
    /\ gens[c][i].st = "resumed"
    /\ r \in StepResults
    /\ gens' = [gens EXCEPT ![c][i].r2 = r,
                            ![c][i].got = IF r.kind = "yield"
                                          THEN Append(@, calls[c].result) ELSE @,
                            ![c][i].st = IF r.kind = "yield" THEN "resumed"
                                         ELSE Settled(r)]
    /\ calls' = [cc \in Calls |->
                    IF r = Thrown /\ cc \in AwaitedBy(c, i) /\ calls[cc].all = NoError
                    THEN [calls[cc] EXCEPT !.all = HandlerException(c, i)]
                    ELSE calls[cc]]
    /\ UNCHANGED <<heap, scalyCall, composed, layers, DB, changes>>

\* A generator that was still running when gen.next(result) returned
\* settles in a job of its own: it returns, yields again, or throws.  A
\* fulfilled step leaves Promise.all waiting for the others; the first
\* rejected one rejects the promise of Promise.all with its exception, and
\* the call, still suspended at its await, has not seen it yet.
ResumeStep(c, i, r) ==
    /\ gens[c][i].st = "resumed"
    /\ r \in StepResults
    /\ gens' = [gens EXCEPT ![c][i].r2 = r, ![c][i].st = Settled(r)]
    /\ calls' = [cc \in Calls |->
                    IF r = Thrown /\ cc \in AwaitedBy(c, i) /\ calls[cc].all = NoError
                    THEN [calls[cc] EXCEPT !.all = HandlerException(c, i)]
                    ELSE calls[cc]]
    /\ UNCHANGED <<heap, scalyCall, composed, layers, DB, changes>>

\* The continuation of `await Promise.all(...)` when the promise is
\* rejected, in a job after the one in which the generator threw: the await
\* rethrows the reason and the call is rejected with it.  Generators of the
\* list that are still running go on.
AwaitAllRejects(c) ==
    /\ calls[c].pc = "awaitAll"
    /\ calls[c].all # NoError
    /\ calls' = [calls EXCEPT ![c].pc = "threw", ![c].err = calls[c].all]
    /\ UNCHANGED <<heap, scalyCall, composed, layers, DB, gens, changes>>

\* Every step handed to Promise.all by call c is fulfilled.
AllFulfilled(c) ==
    \A g \in Range(PendingOf(c)) : gens[g[1]][g[2]].r2.kind \in {"return", "yield"}

\* Mutant: the `await` before Promise.all is missing.
ReturnValueNoWait(c) ==
    /\ calls[c].pc = "awaitAll"
    /\ calls' = [calls EXCEPT ![c].pc = "returned",
                              ![c].ret = <<TRUE, calls[c].result>>]
    /\ UNCHANGED <<heap, scalyCall, composed, layers, DB, gens, changes>>

\* Mutant: the value returned by the last resumed generator replaces the
\* result.
ReturnValueOfPending(c) ==
    /\ calls[c].pc = "awaitAll"
    /\ AllFulfilled(c)
    /\ LET p == PendingOf(c)
           last == IF p = <<>> THEN NoResult ELSE gens[p[Len(p)][1]][p[Len(p)][2]].r2
       IN  calls' = [calls EXCEPT ![c].pc = "returned",
                        ![c].ret = <<TRUE, IF last.kind = "return" THEN last.value
                                            ELSE calls[c].result>>]
    /\ UNCHANGED <<heap, scalyCall, composed, layers, DB, gens, changes>>

\* Mutant: the call waits until every resumed generator is done, so one
\* that yields again keeps it waiting.
ReturnValueWhenDone(c) ==
    /\ calls[c].pc = "awaitAll"
    /\ \A g \in Range(PendingOf(c)) : gens[g[1]][g[2]].st = "done"
    /\ calls' = [calls EXCEPT ![c].pc = "returned",
                              ![c].ret = <<TRUE, calls[c].result>>]
    /\ UNCHANGED <<heap, scalyCall, composed, layers, DB, gens, changes>>

\* The continuation of `await Promise.all(...)` when the promise is
\* fulfilled, which it is once every step is: return [true, result].
ReturnValue(c) ==
    /\ calls[c].pc = "awaitAll"
    /\ AllFulfilled(c)
    /\ calls' = [calls EXCEPT ![c].pc = "returned",
                              ![c].ret = <<TRUE, calls[c].result>>]
    /\ UNCHANGED <<heap, scalyCall, composed, layers, DB, gens, changes>>

\* ------------------------------------------------------------------- spec
\* What the generators and the pending awaits of the calls in flight do.
Progress ==
    \/ \E c \in Calls : FirstStepThrows(c)
    \/ \E c \in Calls, v \in Values : FirstStepReturnsValue(c, v)
    \/ \E c \in Calls, v \in Values : FirstStepOptsOut(c, v)
    \/ \E c \in Calls, v \in Values : FirstStepRequests(c, v)
    \/ \E c \in Calls, e \in Values : FirstStepYieldsError(c, e)
    \/ \E c \in Calls, i \in LayerIds, r \in StepResults : ResumeStep(c, i, r)
    \/ \E c \in Calls : AwaitAllRejects(c)
    \/ \E c \in Calls : ReturnValue(c)

\* The same steps, with first steps that settle to any value of JsValues.
ProgressJsValues ==
    \/ \E c \in Calls : FirstStepThrows(c)
    \/ \E c \in Calls, v \in JsValues : FirstStepReturnsValue(c, v)
    \/ \E c \in Calls, v \in JsValues : FirstStepOptsOut(c, v)
    \/ \E c \in Calls, v \in JsValues : FirstStepRequests(c, v)
    \/ \E c \in Calls, e \in JsValues : FirstStepYieldsError(c, e)
    \/ \E c \in Calls, i \in LayerIds, r \in StepResults : ResumeStep(c, i, r)
    \/ \E c \in Calls : AwaitAllRejects(c)
    \/ \E c \in Calls : ReturnValue(c)

\* A call made while no other call of the object has been made; the
\* specifications of one call make it as call 1.
CallAlone(c, op, a) ==
    /\ \A d \in Calls : calls[d].pc = "idle"
    /\ Call(c, op, a)

\* One call on the composed object.
Next ==
    \/ \E form \in ArgForms, n \in 0..NumLayers : Compose(form, n)
    \/ \E op \in Ops, a \in Args : CallAlone(1, op, a)
    \/ Progress

Spec == Init /\ [][Next]_vars

\* Up to NumCalls calls on an object composed of up to MaxConcurrentLayers
\* layers, interleaved at their awaits.
NextConcurrent ==
    \/ \E form \in ArgForms, n \in 0..MaxConcurrentLayers : Compose(form, n)
    \/ \E c \in Calls, op \in Ops, a \in Args : Call(c, op, a)
    \/ Progress

SpecConcurrent == InitWith(MaxConcurrentLayers, 0) /\ [][NextConcurrent]_vars

\* What one statement of the application makes of layer object o:
\* o[op] = v (a new key comes last); delete o[op], which removes the own
\* property only, so that o[op] is again what the prototype holds; a change
\* of the method the prototype holds, seen through o[op] unless an own key
\* is over it.
Assigned(o, op, v) ==
    [o EXCEPT !.keys = IF op \in Range(@) THEN @ ELSE Append(@, op),
              !.val[op] = v]
Deleted(o, op) ==
    [o EXCEPT !.keys = SelectSeq(@, LAMBDA k : k # op), !.val[op] = o.proto[op]]
Inherited(o, op, v) ==
    [o EXCEPT !.proto[op] = v,
              !.val[op] = IF op \in Range(o.keys) THEN @ ELSE v]
Changed(o) ==
    {Assigned(o, op, v) : op \in HandlerOps, v \in PropValues \ {"function"}}
    \cup {Deleted(o, op) : op \in Range(o.keys) \ {"toString"}}
    \cup {Inherited(o, op, v) : op \in HandlerOps, v \in ProtoValues}

\* The application changes a layer object after scaly has composed the API
\* over it.
MutateLayer(l, o) ==
    /\ composed = "ok"
    /\ changes < MaxChanges
    /\ o \in Changed(heap[l]) \ {heap[l]}
    /\ heap' = [heap EXCEPT ![l] = o]
    /\ changes' = changes + 1
    /\ UNCHANGED <<scalyCall, composed, layers, DB, calls, gens>>

\* What one statement of the application makes of the array a it passed to
\* scaly: a.push(l), a.reverse(), a.length = k.
Reversed(a) == [i \in 1..Len(a) |-> a[Len(a) + 1 - i]]
ChangedArray(a) ==
    {Append(a, l) : l \in LayerIds}
    \cup {Reversed(a)}
    \cup {SubSeq(a, 1, k) : k \in 0..(Len(a) - 1)}

\* The application changes the array after scaly has composed the API: the
\* closures of DB iterate the array itself, not a copy.
MutateArray(a) ==
    /\ composed = "ok"
    /\ changes < MaxChanges
    /\ a \in ChangedArray(layers) \ {layers}
    /\ Len(a) <= NumLayers
    /\ layers' = a
    /\ changes' = changes + 1
    /\ UNCHANGED <<heap, scalyCall, composed, DB, calls, gens>>

\* One call on an object of at most MaxConcurrentLayers plain layers, while
\* the application changes the layers and the array.
NextMutation ==
    \/ \E form \in ArgForms, n \in 0..MaxConcurrentLayers : Compose(form, n)
    \/ \E op \in Ops, a \in Args : CallAlone(1, op, a)
    \/ Progress
    \/ \E l \in LayerIds : \E o \in Changed(heap[l]) : MutateLayer(l, o)
    \/ \E a \in ChangedArray(layers) : MutateArray(a)

SpecMutation == InitWith(MaxConcurrentLayers, 0) /\ [][NextMutation]_vars

\* One call on the composed object, whose handlers return and yield any
\* value of JsValues on their first step.
NextJsValues ==
    \/ \E form \in ArgForms, n \in 0..NumLayers : Compose(form, n)
    \/ \E op \in Ops, a \in Args : CallAlone(1, op, a)
    \/ ProgressJsValues

SpecJsValues == Init /\ [][NextJsValues]_vars

\* What call c waits for: a step of one of its generators to settle, or its
\* own continuation after Promise.all.
StepOf(c) ==
    \/ FirstStepThrows(c)
    \/ \E v \in Values : FirstStepReturnsValue(c, v)
    \/ \E v \in Values : FirstStepOptsOut(c, v)
    \/ \E v \in Values : FirstStepRequests(c, v)
    \/ \E e \in Values : FirstStepYieldsError(c, e)
    \/ \E i \in LayerIds, r \in StepResults : ResumeStep(c, i, r)
    \/ AwaitAllRejects(c)
    \/ ReturnValue(c)

\* One call on the composed object, every step a call waits for settling in
\* the end (the promise of gen.next(...) is settled and the job queue runs
\* the continuation of the await).
SpecFair == Init /\ [][Next]_vars /\ \A c \in Calls : WF_vars(StepOf(c))

\* ----------------------------------------------------------------- claims
Started(c) == calls[c].pc # "idle"
Ended(c) == calls[c].pc \in {"returned", "threw"}
Instantiated(c, i) == gens[c][i].st # "none"
\* Positions of the layers array.
Positions == 1..Len(layers)
\* layer[op] of the layer at position i is truthy.
Implements(i, op) == heap[layers[i]].val[op] \in {"generator", "data", "function"}
\* The call was rejected while it invoked the layer at position i: by
\* layer.toString() or by the call of layer[op].
DispatchRejected(c, i) ==
    /\ calls[c].pc = "threw"
    /\ calls[c].cur = i
    /\ calls[c].err[1] \in {"TypeError", "thrown"}
\* The walk of call c took the layer at position i: it has a handler there
\* or was rejected invoking it.
Attempted(c, i) == Instantiated(c, i) \/ DispatchRejected(c, i)
\* The layer at position i has put its name in the trace of call c.
PushedAt(c, i) ==
    \/ Instantiated(c, i)
    \/ /\ DispatchRejected(c, i)
       /\ calls[c].err \in {<<"TypeError", "layer[op]", <<>>>>,
                            <<"TypeError", "gen.next", <<>>>>}

\* Positions of the layers that have the operation, in list order.
ImplPositions(op) ==
    SelectSeq([i \in 1..Len(layers) |-> i], LAMBDA i : Implements(i, op))
ImplNames(op) ==
    [k \in 1..Len(ImplPositions(op)) |-> LayerToString(layers[ImplPositions(op)[k]])]
IsPrefix(s, t) == Len(s) <= Len(t) /\ SubSeq(t, 1, Len(s)) = s

\* Generators of call c that asked for the value on their first step.
Requesters(c) == {i \in LayerIds : gens[c][i].r1 = Yielded(Undefined)}
\* Requesters whose resumption raised.
RaisedOnResume(c) == {i \in Requesters(c) : gens[c][i].r2 = Thrown}
NoLaterLayer(c, i) == \A j \in LayerIds : j > i => ~Instantiated(c, j)

\* C1 as stated: once a handler of a call has returned a defined value v on
\* its first step, no later layer has a handler, and the call, when it has
\* ended, has returned [true, v].
C1_AsStated ==
    \A c \in Calls, i \in LayerIds, v \in DefinedValues :
        gens[c][i].r1 = Returned(v) =>
            /\ NoLaterLayer(c, i)
            /\ Ended(c) => /\ calls[c].pc = "returned"
                           /\ calls[c].ret = <<TRUE, v>>

\* C1 amended: once a handler of a call has returned a defined value v on
\* its first step, no later layer has a handler; the call awaits the resumed
\* handlers and then returns [true, v], unless a handler resumed with v
\* raised: a call that returned has returned [true, v] and none of its
\* handlers raised; a call that was rejected was rejected with the exception
\* of a handler that raised on resumption; and while the call still awaits,
\* its rejection is the step to come exactly when a resumed handler has
\* raised, and then its return is not.
C1_ReturnStopsWalk ==
    \A c \in Calls, i \in LayerIds, v \in DefinedValues :
        gens[c][i].r1 = Returned(v) =>
            /\ NoLaterLayer(c, i)
            /\ calls[c].pc \in {"awaitAll", "returned", "threw"}
            /\ calls[c].pc = "returned" =>
                    /\ calls[c].ret = <<TRUE, v>>
                    /\ RaisedOnResume(c) = {}
            /\ calls[c].pc = "threw" =>
                    \E j \in RaisedOnResume(c) : calls[c].err = HandlerException(c, j)
            /\ calls[c].pc = "awaitAll" =>
                    /\ ENABLED AwaitAllRejects(c) <=> RaisedOnResume(c) # {}
                    /\ RaisedOnResume(c) # {} => ~ENABLED ReturnValue(c)

\* A call returned [true, v] from a layer that has a later layer with the
\* operation, which was never instantiated.
C1_Witness ==
    \E c \in Calls, i \in LayerIds, v \in DefinedValues :
        /\ gens[c][i].r1 = Returned(v)
        /\ calls[c].ret = <<TRUE, v>>
        /\ \E j \in Positions : j > i /\ Implements(j, calls[c].op)
                                       /\ ~Instantiated(c, j)

\* C2: once a handler of a call has yielded a defined payload e on its first
\* step, the call has returned [false, e], no later layer has a handler, and
\* every pending handler is still suspended at its first yield, never
\* handed a value.
C2_ErrorAbandonsPending ==
    \A c \in Calls, i \in LayerIds, e \in DefinedValues :
        gens[c][i].r1 = Yielded(e) =>
            /\ calls[c].pc = "returned"
            /\ calls[c].ret = <<FALSE, e>>
            /\ NoLaterLayer(c, i)
            /\ \A j \in LayerIds : gens[c][j].got = <<>> /\ gens[c][j].r2 = NoResult
            /\ \A j \in Requesters(c) : gens[c][j].st = "suspended"

\* A call returned [false, e] while a shallower handler was pending and a
\* deeper layer has the operation.
C2_Witness ==
    \E c \in Calls, i \in LayerIds, e \in DefinedValues :
        /\ gens[c][i].r1 = Yielded(e)
        /\ calls[c].ret = <<FALSE, e>>
        /\ \E j \in Requesters(c) : j < i
        /\ \E j \in Positions : j > i /\ Implements(j, calls[c].op)

\* C3: no handler is ever handed a value more than once; a handler is handed
\* a value only if it requested it and a deeper layer of its call returned a
\* defined value v, and then, from the moment v is returned on (so before
\* the call returns), it has been handed exactly v.
C3_ResumedOnceWithValue ==
    \A c \in Calls, i \in LayerIds :
        /\ Len(gens[c][i].got) <= 1
        /\ gens[c][i].got # <<>> =>
                /\ i \in Requesters(c)
                /\ \E j \in LayerIds : j > i /\ gens[c][j].r1 = Returned(gens[c][i].got[1])
                                              /\ gens[c][i].got[1] # Undefined
        /\ \A j \in LayerIds, v \in DefinedValues :
                (j > i /\ i \in Requesters(c) /\ gens[c][j].r1 = Returned(v))
                    => gens[c][i].got = <<v>>

\* A call returned [true, v] after two shallower handlers were handed v.
C3_Witness ==
    \E c \in Calls, v \in DefinedValues :
        /\ calls[c].ret = <<TRUE, v>>
        /\ Cardinality({i \in Requesters(c) : gens[c][i].got = <<v>>}) >= 2

\* The first step of every layer that has the operation either opted out
\* or requested the value.
NoneResolved(c) ==
    \A i \in Positions :
        Implements(i, calls[c].op) =>
            gens[c][i].r1 \in {Returned(Undefined), Yielded(Undefined)}

\* C4: when every layer that has the operation has opted out or only
\* requested the value, the call has returned nothing: it is rejected with
\* the error that carries the operation name and the identities of all these
\* layers in list order.
C4_UnhandledFault ==
    \A c \in Calls :
        (Started(c) /\ NoneResolved(c)) =>
            /\ calls[c].pc = "threw"
            /\ calls[c].ret = <<>>
            /\ calls[c].err = <<"unhandled", calls[c].op, ImplNames(calls[c].op)>>
            /\ calls[c].attemptedLayers = ImplNames(calls[c].op)

\* The fault was raised with a requester pending, an opted-out layer and a
\* layer without the operation.
C4_Witness ==
    \E c \in Calls :
        /\ calls[c].err = <<"unhandled", calls[c].op, calls[c].attemptedLayers>>
        /\ Len(calls[c].attemptedLayers) = 2
        /\ \E i \in Positions : ~Implements(i, calls[c].op)
        /\ calls[c].pendingGenerators # <<>>
        /\ \E i \in LayerIds : gens[c][i].r1 = Returned(Undefined)

\* C5: in every state of every call the attemptedLayers trace is a prefix of
\* the identities of the layers that have the operation, in list order, and
\* so are the layers whose handlers are instantiated: those of the trace,
\* or those of the trace but the last; the call arguments play no part.
C5_DispatchOrder ==
    \A c \in Calls :
        Started(c) =>
            LET n == Cardinality({i \in LayerIds : Instantiated(c, i)})
            IN  /\ IsPrefix(calls[c].attemptedLayers, ImplNames(calls[c].op))
                /\ n \in {Len(calls[c].attemptedLayers),
                          Len(calls[c].attemptedLayers) - 1}
                /\ {i \in LayerIds : Instantiated(c, i)} =
                        {ImplPositions(calls[c].op)[k] : k \in 1..n}

\* A call with argument a2 reached its third layer, all three having the
\* operation.
C5_Witness ==
    \E c \in Calls :
        /\ calls[c].args = "a2"
        /\ Len(calls[c].attemptedLayers) = 3
        /\ calls[c].attemptedLayers = ImplNames(calls[c].op)
        /\ \E k \in 1..3 : calls[c].attemptedLayers[k] # <<"[object Object]", 0>>
        /\ \A i \in Positions : Instantiated(c, i)

\* The names, in list order, of the layers that put their name in the trace
\* of call c.
TraceOf(c) ==
    LET at == SelectSeq([i \in 1..Len(layers) |-> i], LAMBDA i : PushedAt(c, i))
    IN  [k \in 1..Len(at) |-> LayerToString(layers[at[k]])]

\* C6: a layer without the operation never has a handler and never puts an
\* entry in the trace, whose entries are those of the layers taken; the
\* walk passes over it: the layer awaited has the operation, every layer
\* with the operation before it was instantiated, and the unhandled fault
\* is raised only after every layer with the operation was instantiated.
C6_SkipsLayersWithoutOp ==
    \A c \in Calls :
        Started(c) =>
            /\ \A i \in Positions :
                    ~Implements(i, calls[c].op) =>
                        /\ ~Instantiated(c, i)
                        /\ ~Attempted(c, i)
            /\ calls[c].attemptedLayers = TraceOf(c)
            /\ calls[c].pc = "awaitNext" =>
                    /\ Implements(calls[c].cur, calls[c].op)
                    /\ \A i \in 1..calls[c].cur :
                            Implements(i, calls[c].op) => Instantiated(c, i)
            /\ calls[c].err[1] = "unhandled" =>
                    \A i \in Positions :
                        Implements(i, calls[c].op) => Instantiated(c, i)

\* A call passed over layer 2, which lacks the operation, from layer 1 to
\* layer 3.
C6_Witness ==
    \E c \in Calls, i \in Positions :
        /\ Started(c)
        /\ ~Implements(i, calls[c].op)
        /\ \E j \in LayerIds : j < i /\ Instantiated(c, j)
        /\ \E j \in LayerIds : j > i /\ Instantiated(c, j)

\* C7: a handler that returned undefined on its first step is in no pending
\* list, is never handed a value and never steps again; the walk has gone on
\* to the next layer with the operation (or, with none left, to the
\* unhandled fault), and a result of the call comes from a deeper layer.
C7_OptOutNotResumed ==
    \A c \in Calls, i \in LayerIds :
        gens[c][i].r1 = Returned(Undefined) =>
            /\ \A d \in Calls : <<c, i>> \notin Range(calls[d].pendingGenerators)
            /\ gens[c][i].got = <<>>
            /\ gens[c][i].st = "done"
            /\ gens[c][i].r2 = NoResult
            /\ \A j \in Positions :
                    (j > i /\ Implements(j, calls[c].op)
                           /\ \A k \in (i + 1)..(j - 1) : ~Implements(k, calls[c].op))
                        => Attempted(c, j)
            /\ calls[c].ret # <<>> =>
                    \E j \in LayerIds :
                        /\ j > i
                        /\ gens[c][j].r1 \in {Returned(calls[c].ret[2]), Yielded(calls[c].ret[2])}
                        /\ calls[c].ret[1] = (gens[c][j].r1.kind = "return")

\* A layer opted out between a requester and the layer that returned the
\* value of the call.
C7_Witness ==
    \E c \in Calls, i \in LayerIds :
        /\ gens[c][i].r1 = Returned(Undefined)
        /\ \E j \in Requesters(c) : j < i /\ gens[c][j].got # <<>>
        /\ calls[c].pc = "returned"
        /\ calls[c].ret[1] = TRUE

\* C9: once a handler has raised on its first step, the call is rejected
\* with that very exception: it has returned nothing, the error is not the
\* unhandled fault, no later layer has a handler and no handler was resumed.
C9_FirstStepException ==
    \A c \in Calls, i \in LayerIds :
        gens[c][i].r1 = Thrown =>
            /\ calls[c].pc = "threw"
            /\ calls[c].err = HandlerException(c, i)
            /\ calls[c].ret = <<>>
            /\ NoLaterLayer(c, i)
            /\ \A j \in LayerIds : gens[c][j].got = <<>>

\* The last layer with the operation raised after a requester and an
\* opted-out layer.
C9_Witness ==
    \E c \in Calls, i \in LayerIds :
        /\ gens[c][i].r1 = Thrown
        /\ calls[c].pc = "threw"
        /\ Requesters(c) # {}
        /\ \E j \in LayerIds : gens[c][j].r1 = Returned(Undefined)
        /\ Len(calls[c].attemptedLayers) = Len(ImplNames(calls[c].op))

\* C10: once a handler resumed with the returned value v has raised, the
\* call does not return [true, v]: the promise it awaits is rejected with
\* the exception of a handler that raised on resumption (that of the
\* handler itself when it is the only one), and the call either still awaits
\* it, its rejection being the step to come and its return not, or has been
\* rejected with that exception.
C10_ResumeException ==
    \A c \in Calls :
        RaisedOnResume(c) # {} =>
            /\ calls[c].pc \in {"awaitAll", "threw"}
            /\ calls[c].ret = <<>>
            /\ calls[c].result \in DefinedValues
            /\ \E i \in RaisedOnResume(c) : calls[c].all = HandlerException(c, i)
            /\ calls[c].pc = "threw" => calls[c].err = calls[c].all
            /\ calls[c].pc = "awaitAll" =>
                    ENABLED AwaitAllRejects(c) /\ ~ENABLED ReturnValue(c)

\* A handler resumed with v has raised and the call, still at its await of
\* Promise.all, has not been rejected yet, while another handler resumed
\* with v is still running.
RejectionNotYetSeen ==
    \E c \in Calls, i, j \in LayerIds :
        /\ calls[c].pc = "awaitAll"
        /\ gens[c][i].st = "thrown" /\ gens[c][i].r2 = Thrown
        /\ gens[c][j].st = "resumed"

\* The same while another call of the object is waiting for a layer, with
\* a handler of its own pending.
RejectionNotYetSeenByOne ==
    \E c, d \in Calls, i \in LayerIds :
        /\ c # d
        /\ calls[c].pc = "awaitAll"
        /\ gens[c][i].st = "thrown" /\ gens[c][i].r2 = Thrown
        /\ calls[d].pc = "awaitNext"
        /\ calls[d].pendingGenerators # <<>>

\* Of two handlers resumed with v one raised and the other finished; the
\* call is rejected with the exception of the first.
C10_Witness ==
    \E c \in Calls, i, j \in LayerIds, v \in DefinedValues :
        /\ RaisedOnResume(c) = {i}
        /\ gens[c][i].got = <<v>>
        /\ j \in Requesters(c) /\ gens[c][j].r2.kind = "return"
        /\ calls[c].err = HandlerException(c, i)

\* What call c comes to when it runs alone and its handlers settle as they
\* did (gens[c][i].r1): the loop of DB[op] from position i, with the trace
\* and the pending list built so far.  A layer whose toString or layer[op]
\* cannot be called as the loop calls it rejects the call there.
RECURSIVE Alone(_, _, _, _)
Alone(c, i, trace, pend) ==
    IF i > Len(layers)
    THEN [kind |-> "unhandled", trace |-> trace, pend |-> pend,
          value |-> Undefined, at |-> 0, err |-> NoError]
    ELSE IF ~Implements(i, calls[c].op)
    THEN Alone(c, i + 1, trace, pend)
    ELSE LET t == Append(trace, LayerToString(layers[i]))
             o == heap[layers[i]]
             r == gens[c][i].r1
             end(k) == [kind |-> k, trace |-> t, pend |-> pend,
                        value |-> r.value, at |-> i, err |-> NoError]
             rejected(tr, e) == [kind |-> "rejected", trace |-> tr, pend |-> pend,
                                 value |-> Undefined, at |-> i, err |-> e]
         IN  CASE o.str = "missing" -> rejected(trace, NotAFunction("layer.toString"))
               [] o.str = "throws" -> rejected(trace, ToStringException(layers[i]))
               [] o.str \in {"object", "named"} /\ o.val[calls[c].op] = "data" ->
                      rejected(t, NotAFunction("layer[op]"))
               [] o.str \in {"object", "named"} /\ o.val[calls[c].op] = "function" ->
                      rejected(t, NotAFunction("gen.next"))
               [] r.kind = "none" -> end("awaiting")
               [] r.kind = "throw" -> end("exception")
               [] r.kind = "return" /\ r.value # Undefined -> end("value")
               [] r.kind = "return" /\ r.value = Undefined ->
                      Alone(c, i + 1, t, pend)
               [] r.kind = "yield" /\ r.value = Undefined ->
                      Alone(c, i + 1, t, Append(pend, <<c, i>>))
               [] OTHER -> end("error")

\* C8: in every interleaving of the calls, each call has its own handlers
\* (made with its own arguments), and its trace, its pending list, the
\* values handed to its handlers and its outcome are those of the call run
\* alone with the same handler results; a handler is handed the value
\* returned in its own call and no other.  A call whose layer returned a
\* value is rejected, or about to be, exactly when one of its own pending
\* handlers raised on resumption, with the exception of such a handler,
\* whatever the other call does meanwhile.
C8_CallsIndependent ==
    \A c \in Calls :
        Started(c) =>
            LET a == Alone(c, 1, <<>>, <<>>)
                raised == {g \in Range(a.pend) : gens[g[1]][g[2]].r2 = Thrown}
            IN  /\ calls[c].attemptedLayers = a.trace
                /\ calls[c].pendingGenerators = a.pend
                /\ \A i \in LayerIds :
                        /\ Instantiated(c, i) => gens[c][i].args = calls[c].args
                        /\ gens[c][i].got =
                                IF a.kind = "value" /\ <<c, i>> \in Range(a.pend)
                                THEN <<a.value>> ELSE <<>>
                /\ a.kind = "awaiting" =>
                        calls[c].pc = "awaitNext" /\ calls[c].cur = a.at
                /\ a.kind = "exception" =>
                        /\ calls[c].pc = "threw"
                        /\ calls[c].err = HandlerException(c, a.at)
                /\ a.kind = "unhandled" =>
                        /\ calls[c].pc = "threw"
                        /\ calls[c].err = UnhandledError(calls[c].op, a.trace)
                /\ a.kind = "rejected" =>
                        /\ calls[c].pc = "threw" /\ calls[c].cur = a.at
                        /\ calls[c].err = a.err
                /\ a.kind = "error" =>
                        /\ calls[c].pc = "returned"
                        /\ calls[c].ret = <<FALSE, a.value>>
                /\ a.kind = "value" =>
                        /\ calls[c].pc \in {"awaitAll", "returned", "threw"}
                        /\ raised = {} =>
                                calls[c].pc # "threw" /\ calls[c].all = NoError
                        /\ raised # {} =>
                                /\ calls[c].pc # "returned"
                                /\ \E g \in raised :
                                    calls[c].all = HandlerException(g[1], g[2])
                        /\ calls[c].pc = "threw" =>
                                calls[c].err = calls[c].all
                        /\ calls[c].pc = "returned" =>
                                /\ calls[c].ret = <<TRUE, a.value>>
                                /\ \A g \in Range(a.pend) :
                                        gens[g[1]][g[2]].r2.kind \in {"return", "yield"}

\* Two calls of the same operation with different arguments were in flight
\* together, each with a pending handler: one has returned its value after
\* resuming its handler while the other, still waiting for a layer, later
\* returns another value.
C8_Witness ==
    \E c, d \in Calls :
        /\ c # d
        /\ calls[c].op = calls[d].op
        /\ calls[c].args # calls[d].args
        /\ calls[c].ret = <<TRUE, "qix">>
        /\ calls[d].pc = "awaitAll"
        /\ calls[d].result = "null"
        /\ \E i \in Requesters(c) : gens[c][i].r2 # NoResult
        /\ \E i \in Requesters(d) : gens[d][i].st = "resumed"

\* ------------------------------------------------------------ composition
\* Keys of the layer object at position i when scaly was called.
KeysAt(i) == scalyCall.keys[scalyCall.items[i]].keys
\* Where an operation name is first met when the layers are read in list
\* order and the keys of each in key order: <<position, key index>>.
FirstSeen(op) ==
    LET i == CHOOSE i \in Positions :
                /\ op \in Range(KeysAt(i))
                /\ \A j \in 1..(i - 1) : op \notin Range(KeysAt(j))
        k == CHOOSE k \in 1..Len(KeysAt(i)) : KeysAt(i)[k] = op
    IN  <<i, k>>
Before(p, q) == p[1] < q[1] \/ (p[1] = q[1] /\ p[2] < q[2])

\* C11 as stated: scaly(target, ...sources) with at least a target composes
\* the API over the layer objects passed, in argument order.
C11_SpreadAccepted ==
    (scalyCall.form = "spread" /\ scalyCall.n >= 1) =>
        /\ composed = "ok"
        /\ layers = [i \in 1..scalyCall.n |-> i]

\* What the code exposes: one entry point for each own enumerable key of
\* the layers, whatever it holds, without duplicates, in the order in which
\* the keys are first met reading the layers in list order; a name can be
\* called if and only if it is one of these keys.
OwnKeysExposed ==
    /\ composed # "ok" => DB = <<>>
    /\ composed = "ok" =>
        /\ Range(DB) = UNION {Range(KeysAt(i)) : i \in Positions}
        /\ \A j, k \in 1..Len(DB) :
                j < k => DB[j] # DB[k] /\ Before(FirstSeen(DB[j]), FirstSeen(DB[k]))
        /\ \A c \in Calls, op \in Ops, a \in Args :
                (\A d \in Calls : calls[d].pc = "idle") =>
                    (ENABLED CallAlone(c, op, a)
                        <=> op \in UNION {Range(KeysAt(i)) : i \in Positions})

\* C12 as stated: the composed object has one entry point for exactly each
\* operation that at least one layer implements, that is, for which a call
\* would find a handler factory in a layer.
C12_OperationsExposed ==
    composed = "ok" =>
        Range(DB) = {op \in Ops : \E i \in Positions :
                            heap[layers[i]].val[op] = "generator"}

\* C13: when the first argument of scaly is not an array (nothing, or a bare
\* layer object), scaly throws the TypeError and produces no API object: no
\* operation exists and no call can be made.
C13_RejectsNonArray ==
    (scalyCall.form # "none" /\ scalyCall.form # "array") =>
        /\ composed = "TypeError"
        /\ DB = <<>>
        /\ layers = <<>>
        /\ \A c \in Calls : ~Started(c) /\ \A i \in LayerIds : ~Instantiated(c, i)
        /\ \A c \in Calls, op \in Ops, a \in Args : ~ENABLED Call(c, op, a)

\* scaly was given a bare layer object that has operations and threw.
C13_Witness ==
    /\ composed = "TypeError"
    /\ scalyCall.form = "spread"
    /\ scalyCall.n >= 1
    /\ scalyCall.keys[1].keys # <<>>

\* -------------------------------------------------------------- behaviour
ReturnedValue(c) ==
    calls[c].pc = "returned" /\ Len(calls[c].ret) = 2 /\ calls[c].ret[1] = TRUE
FirstStepDone(c, i) == gens[c][i].r1 # NoResult

\* C14: a call has at most one handler in its first step, the one its loop
\* awaits, and a handler exists only when every handler of the call at an
\* earlier position has completed its first step.
C14_SequentialWalk ==
    \A c \in Calls :
        /\ Cardinality({i \in LayerIds : gens[c][i].st = "running"}) <= 1
        /\ \A i \in LayerIds :
                gens[c][i].st = "running" =>
                    calls[c].pc = "awaitNext" /\ calls[c].cur = i
        /\ \A i, j \in LayerIds :
                (i < j /\ Instantiated(c, i) /\ Instantiated(c, j))
                    => FirstStepDone(c, i)

\* The third layer is in its first step after the first two completed theirs.
C14_Witness ==
    \E c \in Calls :
        /\ gens[c][3].st = "running"
        /\ FirstStepDone(c, 1) /\ FirstStepDone(c, 2)

\* C15: when a call has returned [true, v], every handler of its pending
\* list was handed v and its resumed step has completed (it returned or
\* yielded again); none is still running.
C15_ReturnAfterAllResumed ==
    \A c \in Calls :
        ReturnedValue(c) =>
            \A g \in Range(calls[c].pendingGenerators) :
                /\ gens[g[1]][g[2]].got = <<calls[c].ret[2]>>
                /\ gens[g[1]][g[2]].st \in {"done", "suspended"}
                /\ gens[g[1]][g[2]].r2.kind \in {"return", "yield"}

\* A call returned [true, v] after its two pending handlers completed their
\* resumed steps, one by yielding again and one by returning.
C15_Witness ==
    \E c \in Calls :
        /\ ReturnedValue(c)
        /\ Len(calls[c].pendingGenerators) = 2
        /\ gens[c][1].r2.kind = "yield"
        /\ gens[c][2].r2.kind = "return"

\* C16: when no resumed handler raised, a call in which a layer returned
\* the defined value v has, once ended, returned [true, v], whatever the
\* resumed handlers returned.
C16_ResumedReturnDiscarded ==
    \A c \in Calls, i \in LayerIds :
        (/\ gens[c][i].r1.kind = "return"
         /\ gens[c][i].r1.value # Undefined
         /\ Ended(c)
         /\ RaisedOnResume(c) = {})
            => /\ calls[c].pc = "returned"
               /\ calls[c].ret = <<TRUE, gens[c][i].r1.value>>

\* A call returned [true, "qix"] although its pending handler, resumed with
\* "qix", returned "null".
C16_Witness ==
    \E c \in Calls, i \in LayerIds :
        /\ calls[c].ret = <<TRUE, "qix">>
        /\ i \in Requesters(c)
        /\ gens[c][i].got = <<"qix">>
        /\ gens[c][i].r2 = Returned("null")

\* C17 as stated: a pending handler that yields again after being resumed
\* with v is left suspended and is not stepped again, and the call, when it
\* has ended, has returned [true, v].
C17_AsStated ==
    \A c \in Calls, i \in LayerIds :
        (i \in Requesters(c) /\ gens[c][i].r2.kind = "yield") =>
            /\ gens[c][i].st = "suspended"
            /\ Len(gens[c][i].got) = 1
            /\ Ended(c) => /\ calls[c].pc = "returned"
                           /\ calls[c].ret = <<TRUE, gens[c][i].got[1]>>

\* C17 amended: a pending handler that yields again after being resumed
\* with v is left suspended and is not stepped again; its payload is not
\* returned as a failure; the call is not held up by it: as soon as every
\* resumed step is fulfilled (by a return or by a second yield) the return
\* of [true, v] is the step to come, a call that returned has returned
\* [true, v], and the call is rejected only when another handler raised on
\* resumption.
C17_SecondYieldIgnored ==
    \A c \in Calls, i \in LayerIds :
        (i \in Requesters(c) /\ gens[c][i].r2.kind = "yield") =>
            /\ gens[c][i].st = "suspended"
            /\ Len(gens[c][i].got) = 1
            /\ calls[c].pc \in {"awaitAll", "returned", "threw"}
            /\ calls[c].pc = "returned" =>
                    calls[c].ret = <<TRUE, gens[c][i].got[1]>>
            /\ RaisedOnResume(c) = {} => calls[c].pc # "threw"
            /\ calls[c].pc = "threw" =>
                    \E j \in RaisedOnResume(c) :
                        j # i /\ calls[c].err = HandlerException(c, j)
            /\ (/\ calls[c].pc = "awaitAll"
                /\ \A j \in Requesters(c) :
                        gens[c][j].r2.kind \in {"return", "yield"})
                    => ENABLED ReturnValue(c) /\ ~ENABLED AwaitAllRejects(c)

\* A call returned [true, v] after a pending handler yielded the payload
\* "null" on its resumed step and another yielded nothing.
C17_Witness ==
    \E c \in Calls, i, j \in LayerIds, v \in DefinedValues :
        /\ calls[c].ret = <<TRUE, v>>
        /\ i \in Requesters(c) /\ gens[c][i].r2 = Yielded("null")
        /\ j \in Requesters(c) /\ gens[c][j].r2 = Yielded(Undefined)

\* C19: as long as no call was made, no generator exists, whether or not
\* scaly has run; a generator exists only for a started call, at a layer
\* that has the operation and is in the trace of the call, one per entry of
\* the trace.
C19_ComposeCreatesNoHandler ==
    /\ (\A c \in Calls : ~Started(c)) =>
            \A c \in Calls, i \in LayerIds : gens[c][i] = NoGen
    /\ \A c \in Calls :
            /\ \A i \in LayerIds :
                    Instantiated(c, i) =>
                        /\ Started(c)
                        /\ i \in Positions
                        /\ Implements(i, calls[c].op)
                        /\ LayerToString(layers[i]) \in Range(calls[c].attemptedLayers)
            /\ Cardinality({i \in LayerIds : Instantiated(c, i)})
                    = Len(calls[c].attemptedLayers)
                        - Cardinality({i \in LayerIds :
                                PushedAt(c, i) /\ ~Instantiated(c, i)})

\* scaly has composed an object with operations over three layers and no
\* call was made yet.
C19_Witness ==
    /\ composed = "ok"
    /\ Len(layers) = 3
    /\ Len(DB) = 2
    /\ \A c \in Calls : ~Started(c)

\* --------------------------------------------------------------- registry
\* The layers, in list order, whose layer[op] was truthy when scaly was
\* called.
ComposedLayers(op) ==
    SelectSeq(scalyCall.items, LAMBDA l : scalyCall.keys[l].val[op] # "falsy")
\* The layers at which call c has made a handler, in the order of the walk.
DispatchedLayers(c) ==
    LET ps == SelectSeq([i \in 1..NumLayers |-> i], LAMBDA i : Instantiated(c, i))
    IN  [k \in 1..Len(ps) |-> gens[c][ps[k]].layer]

\* C18 as stated: whatever happens to the layers after composition, a call
\* dispatches, in order, to the layers that had the operation when the API
\* was composed: the layers of its handlers are a prefix of them, and the
\* whole of them when the call ends with the unhandled fault.
C18_FixedAtComposition ==
    \A c \in Calls :
        Started(c) =>
            /\ IsPrefix(DispatchedLayers(c), ComposedLayers(calls[c].op))
            /\ calls[c].err[1] = "unhandled" =>
                    DispatchedLayers(c) = ComposedLayers(calls[c].op)

\* What DB[op] does instead: after composition the operation names of the
\* object never change (they are the own keys the layers had then), but the
\* layers of an operation are looked up by each call as it goes, in the
\* array and the layers as they are at that moment: a handler is created at
\* a position only for the layer that is there then, if its layer[op] is
\* truthy then and that of every layer passed over since the previous
\* position is not, and the unhandled fault is raised only if no remaining
\* layer of the array has it then.
LookupAtCallTime ==
    [][/\ composed = "ok" =>
            /\ DB' = DB
            /\ Range(DB) = UNION {Range(KeysAt(i)) : i \in 1..Len(scalyCall.items)}
        /\ \A c \in Calls :
            /\ \A i \in LayerIds :
                    (~Instantiated(c, i) /\ gens'[c][i].st # "none") =>
                        /\ i \in Positions /\ i > calls[c].cur
                        /\ gens'[c][i].layer = layers[i]
                        /\ Implements(i, calls'[c].op)
                        /\ \A k \in (calls[c].cur + 1)..(i - 1) :
                                ~Implements(k, calls'[c].op)
            /\ (calls[c].err[1] # "unhandled" /\ calls'[c].err[1] = "unhandled") =>
                    \A k \in (calls[c].cur + 1)..Len(layers) :
                        ~Implements(k, calls'[c].op)
      ]_vars

\* Both layers of the array had the operation when the API was composed,
\* both lost it afterwards, and a call of it ended with the unhandled fault
\* and an empty trace.
BothLostOperation ==
    \E c \in Calls :
        /\ calls[c].err = <<"unhandled", calls[c].op, <<>>>>
        /\ Len(ComposedLayers(calls[c].op)) = 2
        /\ Len(layers) = 2

\* A call in flight has made a handler at a layer that was pushed on the
\* array after the API was composed.
PushedLayerReached ==
    \E c \in Calls, i \in LayerIds :
        /\ Instantiated(c, i)
        /\ gens[c][i].layer \notin Range(scalyCall.items)
        /\ \E j \in 1..(i - 1) : FirstStepDone(c, j)

\* A call has made a handler at a layer that had the operation as an own
\* key when the API was composed and has lost the key since: the delete
\* has shown the method of the prototype.
InheritedAfterDelete ==
    \E c \in Calls, i \in Positions :
        /\ Instantiated(c, i)
        /\ gens[c][i].layer = layers[i]
        /\ calls[c].op \in Range(scalyCall.keys[layers[i]].keys)
        /\ calls[c].op \notin Range(heap[layers[i]].keys)
        /\ heap[layers[i]].proto[calls[c].op] = "generator"

\* --------------------------------------------------------- classification
\* Exactly one branch is open to every {value, done} of a first step, and
\* undefined alone selects the branches without a value.
OneBranchEach(c) ==
    \A v \in JsValues :
        /\ (ENABLED FirstStepReturnsValue(c, v)) <=> v # Undefined
        /\ (ENABLED FirstStepOptsOut(c, v)) <=> v = Undefined
        /\ (ENABLED FirstStepYieldsError(c, v)) <=> v # Undefined
        /\ (ENABLED FirstStepRequests(c, v)) <=> v = Undefined

\* C20 as stated: every {value, done} of a first step falls in exactly one
\* of the four cases and only undefined is "no value": a handler that
\* returned any other value on its first step makes the call return
\* [true, value], one that yielded any other payload makes it return
\* [false, payload].
C20_AsStated ==
    \A c \in Calls :
        /\ Awaiting(c) => OneBranchEach(c)
        /\ \A i \in LayerIds, v \in JsValues \ {Undefined} :
            /\ (gens[c][i].r1 = Returned(v) /\ Ended(c)) =>
                    /\ calls[c].pc = "returned"
                    /\ calls[c].ret = <<TRUE, v>>
            /\ gens[c][i].r1 = Yielded(v) =>
                    /\ calls[c].pc = "returned"
                    /\ calls[c].ret = <<FALSE, v>>

\* C20 amended: every {value, done} of a first step falls in exactly one of
\* the four cases and only undefined is "no value".  A handler that returned
\* any other value v (null, false, 0 and "" included) stops the walk with v
\* as the result: the call, when it returns, returns [true, v], and it ends
\* otherwise only when a handler resumed with v raised.  A handler that
\* yielded any other
\* payload e makes the call return [false, e].  A handler that returned
\* undefined is dropped and the walk goes on; one that yielded undefined is
\* kept pending and the walk goes on.
C20_ClassifiedByUndefined ==
    \A c \in Calls :
        /\ Awaiting(c) => OneBranchEach(c)
        /\ \A i \in LayerIds :
            /\ \A v \in JsValues \ {Undefined} :
                /\ gens[c][i].r1 = Returned(v) =>
                        /\ calls[c].cur = i /\ calls[c].result = v
                        /\ calls[c].pc \in {"awaitAll", "returned", "threw"}
                        /\ calls[c].pc = "returned" =>
                                /\ calls[c].ret = <<TRUE, v>>
                                /\ RaisedOnResume(c) = {}
                        /\ calls[c].pc = "threw" => RaisedOnResume(c) # {}
                /\ gens[c][i].r1 = Yielded(v) =>
                        /\ calls[c].cur = i
                        /\ calls[c].pc = "returned"
                        /\ calls[c].ret = <<FALSE, v>>
            /\ gens[c][i].r1 = Returned(Undefined) =>
                    /\ calls[c].cur # i
                    /\ <<c, i>> \notin Range(calls[c].pendingGenerators)
                    /\ gens[c][i].got = <<>>
            /\ gens[c][i].r1 = Yielded(Undefined) =>
                    /\ calls[c].cur # i
                    /\ <<c, i>> \in Range(calls[c].pendingGenerators)

\* A call returned [true, v] for a falsy v other than undefined, after
\* resuming a pending handler with it.
C20_Witness ==
    \E c \in Calls, i \in LayerIds, v \in Falsy \ {Undefined} :
        /\ gens[c][i].r1 = Returned(v)
        /\ calls[c].ret = <<TRUE, v>>
        /\ \E j \in Requesters(c) : gens[c][j].got = <<v>>

\* ---------------------------------------------------------- abandonment
\* The call ended without a layer returning a defined value: it returned
\* [false, e], or was rejected with the unhandled fault or with the
\* exception of a handler's first step.
EndedWithoutValue(c) ==
    \/ calls[c].pc = "returned" /\ calls[c].ret[1] = FALSE
    \/ calls[c].pc = "threw" /\ calls[c].err[1] = "unhandled"
    \/ /\ calls[c].pc = "threw" /\ calls[c].err[1] = "exception"
       /\ gens[calls[c].err[3][1]][calls[c].err[3][2]].r1.kind = "throw"

\* C21: in a call that ended without a defined value no handler was stepped
\* twice: no handler was handed a value or has the result of a second step,
\* and every handler of the pending list is still suspended at the yield
\* of undefined of its first step.
C21_PendingAbandoned ==
    \A c \in Calls :
        EndedWithoutValue(c) =>
            /\ \A i \in LayerIds :
                    /\ gens[c][i].got = <<>>
                    /\ gens[c][i].r2.kind = "none"
                    /\ gens[c][i].st # "resumed"
            /\ \A k \in 1..Len(calls[c].pendingGenerators) :
                    LET p == calls[c].pendingGenerators[k]
                    IN  /\ p[1] = c
                        /\ gens[c][p[2]].st = "suspended"
                        /\ gens[c][p[2]].r1.kind = "yield"
                        /\ gens[c][p[2]].r1.value = Undefined

\* A call ended with the unhandled fault while two handlers were pending.
C21_Witness ==
    \E c \in Calls :
        /\ calls[c].pc = "threw" /\ calls[c].err[1] = "unhandled"
        /\ Len(calls[c].pendingGenerators) = 2
        /\ \A k \in 1..2 : gens[c][calls[c].pendingGenerators[k][2]].st = "suspended"

\* ------------------------------------------------------------- hand-over
\* C22: in the step in which a handler returns a defined value v, every
\* handler that was pending is handed v and its second step is started,
\* while the call has seen the outcome of none: it comes to its await of
\* Promise.all, neither returned nor rejected.  A handler is handed a value
\* in no other step, and the step in which the call sees the outcome of the
\* second steps hands nothing.  Hence whenever a resumed handler has raised,
\* be the call rejected already or not, every handler that was pending has
\* been handed v, exactly once.
C22_AllHandedBeforeAnySettles ==
    [][\A c \in Calls :
        /\ \A i \in LayerIds :
            (gens[c][i].r1.kind # "return" /\ gens'[c][i].r1.kind = "return"
                    /\ gens'[c][i].r1.value # Undefined) =>
                /\ calls'[c].pc = "awaitAll"
                /\ calls'[c].ret = <<>> /\ calls'[c].err = NoError
                /\ \A j \in LayerIds :
                    (gens[c][j].r1.kind = "yield" /\ gens[c][j].r1.value = Undefined) =>
                        /\ gens[c][j].got = <<>>
                        /\ gens'[c][j].got = <<gens'[c][i].r1.value>>
                        /\ gens'[c][j].st \in {"resumed", "done", "thrown"}
        /\ \A j \in LayerIds :
            gens'[c][j].got # gens[c][j].got =>
                calls[c].pc = "awaitNext" /\ calls'[c].pc = "awaitAll"
        /\ (calls[c].pc = "awaitAll" /\ calls'[c].pc # "awaitAll") =>
                gens' = gens
        /\ (calls'[c].all # NoError \/ RaisedOnResume(c)' # {}) =>
                \A j \in LayerIds :
                    (gens'[c][j].r1.kind = "yield" /\ gens'[c][j].r1.value = Undefined) =>
                        /\ gens'[c][j].got = <<calls'[c].result>>
                        /\ gens'[c][j].st # "suspended" \/ gens'[c][j].r2.kind = "yield"
      ]_vars

\* A call was rejected by the exception of the first of its two pending
\* handlers while the second, handed the value too, has not settled.
C22_Witness ==
    \E c \in Calls, i, j \in LayerIds :
        /\ i < j
        /\ {i, j} \subseteq Requesters(c)
        /\ calls[c].pc = "threw"
        /\ gens[c][i].r2.kind = "throw"
        /\ gens[c][j].st = "resumed"
        /\ gens[c][j].got = <<calls[c].result>>

\* ------------------------------------------------------------ termination
\* The call has ended in exactly one of the four outcomes.
OneOutcome(c) ==
    \/ /\ calls[c].pc = "returned" /\ calls[c].err[1] = "none"
       /\ Len(calls[c].ret) = 2 /\ calls[c].ret[1] \in BOOLEAN
       /\ calls[c].ret[2] = calls[c].result /\ calls[c].result # Undefined
    \/ /\ calls[c].pc = "threw" /\ calls[c].ret = <<>>
       /\ calls[c].err[1] \in {"unhandled", "exception"}

\* The call was rejected while the loop invoked a layer, before any handler
\* of that layer existed: by the TypeError of calling a toString or a
\* layer[op] that is not a function, or by what the layer's toString threw.
RejectedAtLayer(c) ==
    /\ calls[c].pc = "threw" /\ calls[c].ret = <<>>
    /\ calls[c].err[1] \in {"TypeError", "thrown"}
    /\ ~Instantiated(c, calls[c].cur)

\* The layer at position i of the list is one the engine is made for, as
\* far as a call of op can tell: layer.toString() returns a name and
\* layer[op], when truthy, makes a generator.
KeepsContract(i, op) ==
    /\ heap[layers[i]].str \in {"object", "named"}
    /\ heap[layers[i]].val[op] \in {"falsy", "generator"}

\* At most one handler per entry of the list, made by the layer of that
\* entry, each stepped at most twice: handed nothing on its first step and
\* one value on its second.
BoundedWork(c) ==
    /\ Cardinality({i \in LayerIds : Instantiated(c, i)}) <= Len(layers)
    /\ \A i \in LayerIds :
        /\ Instantiated(c, i) => i \in Positions /\ gens[c][i].layer = layers[i]
        /\ Len(gens[c][i].got) <= 1
        /\ gens[c][i].r2.kind # "none" => Len(gens[c][i].got) = 1
        /\ gens[c][i].got # <<>> => gens[c][i].r1.kind = "yield"

====
